---- MODULE Spec2Model ----
(***************************************************************************)
(* Model of class HDW of bitcoinutils/hdwallet.py: the attributes of one   *)
(* HDW instance and the methods that read or write them.                   *)
(*                                                                         *)
(* Byte strings (bytes) are sequences of integers 0..255, text strings     *)
(* (str) are sequences of Unicode code points.  An attribute that may be   *)
(* absent or None holds <<>> when it is, and <<v>> when it holds v.        *)
(* A method is an operator from the instance and the arguments to the      *)
(* instance it leaves, the value it returns and the exception it raises.   *)
(***************************************************************************)
EXTENDS Integers, Sequences, FiniteSets, TLC

VARIABLES
    self,    \* the attributes of the HDW instance
    state,   \* which entry point set the key material last
    op,      \* the method called last
    arg,     \* its str/bytes arguments, in order
    flag,    \* its boolean argument (strict / encoded), FALSE if it has none
    ret,     \* the byte strings it returned
    err      \* the message of the exception it raised, or NoErr

vars == <<self, state, op, arg, flag, ret, err>>

-----------------------------------------------------------------------------
(* Python values *)

Unset == <<>>
Some(v) == <<v>>
NoErr == "none"

Min(a, b) == IF a < b THEN a ELSE b

\* s[a:b] for 0 <= a <= b
Slice(s, a, b) == SubSeq(s, a + 1, Min(b, Len(s)))
\* s[a:]
SliceFrom(s, a) == SubSeq(s, a + 1, Len(s))

\* int.from_bytes(bs, "big") and struct.unpack(">L", bs)[0]
RECURSIVE from_bytes_big(_)
from_bytes_big(bs) ==
    IF bs = <<>> THEN 0
    ELSE from_bytes_big(SubSeq(bs, 1, Len(bs) - 1)) * 256 + bs[Len(bs)]

HexDigit(n) == IF n < 10 THEN 48 + n ELSE 87 + n

\* binascii.b2a_hex on a bytes object: two lowercase hex digits per byte
b2a_hex(bs) ==
    [i \in 1..(2 * Len(bs)) |->
        IF i % 2 = 1 THEN HexDigit(bs[(i + 1) \div 2] \div 16)
                     ELSE HexDigit(bs[i \div 2] % 16)]

HexValue(c) ==
    IF c >= 48 /\ c <= 57 THEN c - 48
    ELSE IF c >= 97 /\ c <= 102 THEN c - 87
    ELSE IF c >= 65 /\ c <= 70 THEN c - 55
    ELSE -1

\* binascii.unhexlify accepts an even number of hex digits
IsHex(s) == Len(s) % 2 = 0 /\ \A i \in 1..Len(s) : HexValue(s[i]) >= 0
unhexlify(s) ==
    [i \in 1..(Len(s) \div 2) |-> HexValue(s[2 * i - 1]) * 16 + HexValue(s[2 * i])]

-----------------------------------------------------------------------------
(* Library functions the class calls *)

\* unicodedata.normalize("NFKD", .) of one code point, for the code points the
\* inputs below use: NO-BREAK SPACE and IDEOGRAPHIC SPACE have the
\* compatibility decomposition SPACE, LATIN SMALL LETTER E WITH ACUTE
\* decomposes to e + COMBINING ACUTE ACCENT, ASCII is left as it is.
NFKDChar(c) ==
    IF c = 160 \/ c = 12288 THEN <<32>>
    ELSE IF c = 233 THEN <<101, 769>>
    ELSE <<c>>

RECURSIVE normalize_NFKD(_)
normalize_NFKD(s) ==
    IF s = <<>> THEN <<>> ELSE NFKDChar(Head(s)) \o normalize_NFKD(Tail(s))

\* str.split(" "): the pieces between single ASCII spaces, empty pieces kept
RECURSIVE SplitFrom(_, _)
SplitFrom(s, cur) ==
    IF s = <<>> THEN <<cur>>
    ELSE IF Head(s) = 32 THEN <<cur>> \o SplitFrom(Tail(s), <<>>)
    ELSE SplitFrom(Tail(s), Append(cur, Head(s)))
split_space(s) == SplitFrom(s, <<>>)

\* str.encode("utf-8") of one code point below 0x10000
Utf8Char(c) ==
    IF c < 128 THEN <<c>>
    ELSE IF c < 2048 THEN <<192 + (c \div 64), 128 + (c % 64)>>
    ELSE <<224 + (c \div 4096), 128 + ((c \div 64) % 64), 128 + (c % 64)>>

RECURSIVE encode_utf8(_)
encode_utf8(s) ==
    IF s = <<>> THEN <<>> ELSE Utf8Char(Head(s)) \o encode_utf8(Tail(s))

\* The SHA-512 based primitives of hashlib and hmac are library code.  They
\* are modelled as what the class relies on: a deterministic function of the
\* inputs, in their order, that yields DigestSize bytes.
DigestSize == 64

RECURSIVE PowMod(_, _)
PowMod(b, e) ==
    IF e = 0 THEN 1
    ELSE LET h == PowMod(b, e \div 2)
         IN  IF e % 2 = 0 THEN (h * h) % 32749 ELSE (((h * h) % 32749) * b) % 32749

\* the elements of s, each plus 1, as the digits of a number to the base 257,
\* modulo 32749
RECURSIVE Absorb(_)
Absorb(s) ==
    IF Len(s) = 0 THEN 0
    ELSE IF Len(s) = 1 THEN s[1] + 1
    ELSE LET m == Len(s) \div 2
             hi == Absorb(SubSeq(s, 1, m))
             lo == Absorb(SubSeq(s, m + 1, Len(s)))
         IN  (hi * PowMod(257, Len(s) - m) + lo) % 32749

Squeeze(a, n) == [i \in 1..n |-> (a * i + (a \div 256) + i) % 256]

\* hmac.new(key, msg, hashlib.sha512).digest()
hmac_sha512(key, msg) ==
    Squeeze(Absorb(<<1>> \o key \o <<256>> \o msg), DigestSize)

\* hashlib.pbkdf2_hmac("sha512", password, salt, iterations): dklen defaults
\* to the digest size
pbkdf2_hmac_sha512(password, salt, iterations) ==
    Squeeze(Absorb(<<2>> \o password \o <<256>> \o salt
                       \o <<256, iterations % 256, iterations \div 256>>),
            DigestSize)

\* The order of the group of SECP256k1, big-endian
Secp256k1Order ==
    <<255, 255, 255, 255, 255, 255, 255, 255, 255, 255, 255, 255, 255, 255,
      255, 254, 186, 174, 220, 230, 175, 72, 160, 59, 191, 210, 94, 140, 208,
      54, 65, 65>>

RECURSIVE BytesLess(_, _)
BytesLess(a, b) ==
    IF a = <<>> THEN FALSE
    ELSE IF Head(a) # Head(b) THEN Head(a) < Head(b)
    ELSE BytesLess(Tail(a), Tail(b))

\* ecdsa.SigningKey.from_string(string, curve=SECP256k1) raises
\* MalformedPointError unless the string has the curve's 32 bytes and is a
\* secret exponent e with 1 <= e < order
SigningKeyOk(string) ==
    /\ Len(string) = Len(Secp256k1Order)
    /\ \E i \in 1..Len(string) : string[i] # 0
    /\ BytesLess(string, Secp256k1Order)
SigningKey(string) == [curve |-> "SECP256k1", secret |-> string]
get_verifying_key(sk) == [curve |-> sk.curve, public_of |-> sk.secret]

-----------------------------------------------------------------------------
(* class HDW *)

Outcome(obj, value, error) == [self |-> obj, ret |-> value, err |-> error]

\* b"Bitcoin seed"
BitcoinSeed == <<66, 105, 116, 99, 111, 105, 110, 32, 115, 101, 101, 100>>
\* "mnemonic"
MnemonicPrefix == <<109, 110, 101, 109, 111, 110, 105, 99>>
\* b'\x04\x88\xAD\xE4'
XprvVersion == <<4, 136, 173, 228>>

\* from_seed with the seed as the key of the HMAC and "Bitcoin seed" as its
\* message
from_seed_key_as_message(seed_bytes) ==
    LET key == BitcoinSeed
        h == hmac_sha512(seed_bytes, key)
    IN  <<Slice(h, 0, 32), SliceFrom(h, 32)>>

\* HDW.from_seed: (master_private_key, master_chain_code)
from_seed(seed_bytes) ==
    LET key == BitcoinSeed
        h == hmac_sha512(key, seed_bytes)
    IN  <<Slice(h, 0, 32), SliceFrom(h, 32)>>

\* HDW.__init__
HDW(seed) ==
    LET new == [strength |-> Unset,
                _depth |-> 0,
                _index |-> 0,
                _parent_fingerprint |-> <<0, 0, 0, 0>>,
                seed |-> Unset,
                master_private_key |-> Unset,
                master_chain_code |-> Unset,
                _mnemonic |-> Unset,
                _key |-> Unset,
                _verified_key |-> Unset]
    IN  IF seed # <<>>
        THEN LET seed_bytes == unhexlify(seed)
                 pair == from_seed(seed_bytes)
             IN  [new EXCEPT !.seed = Some(seed_bytes),
                             !.master_private_key = Some(pair[1]),
                             !.master_chain_code = Some(pair[2])]
        ELSE new

\* get_mnemonic_strength splitting the mnemonic as given, not normalized
get_mnemonic_strength_unnormalized(mnemonic) ==
    LET words == Len(split_space(mnemonic))
        return(n) == [ret |-> <<n>>, err |-> NoErr]
    IN  IF words = 12 THEN return(128)
        ELSE IF words = 15 THEN return(160)
        ELSE IF words = 18 THEN return(192)
        ELSE IF words = 21 THEN return(224)
        ELSE IF words = 24 THEN return(256)
        ELSE [ret |-> <<>>, err |-> "Unsupported number of words in mnemonic."]

\* HDW.get_mnemonic_strength (static): [ret, err]
get_mnemonic_strength(mnemonic) ==
    LET words == Len(split_space(normalize_NFKD(mnemonic)))
        return(n) == [ret |-> <<n>>, err |-> NoErr]
    IN  IF words = 12 THEN return(128)
        ELSE IF words = 15 THEN return(160)
        ELSE IF words = 18 THEN return(192)
        ELSE IF words = 21 THEN return(224)
        ELSE IF words = 24 THEN return(256)
        ELSE [ret |-> <<>>, err |-> "Unsupported number of words in mnemonic."]

\* HDW.to_seed
to_seed(mnemonic, passphrase) ==
    LET passphrase2 == MnemonicPrefix \o passphrase
        mnemonic_bytes == encode_utf8(mnemonic)
        passphrase_bytes == encode_utf8(passphrase2)
        stretched == pbkdf2_hmac_sha512(mnemonic_bytes, passphrase_bytes, 2048)
    IN  Slice(stretched, 0, 64)

\* from_mnemonic that also makes the instance a root again
from_mnemonic_as_root(obj, mnemonic, passphrase) ==
    LET normalized == normalize_NFKD(mnemonic)
        s1 == [obj EXCEPT !._mnemonic = Some(normalized)]
        st == get_mnemonic_strength(normalized)
    IN  IF st.err # NoErr THEN Outcome(s1, <<>>, st.err)
        ELSE LET s2 == [s1 EXCEPT !.strength = Some(st.ret[1])]
                 seed_bytes == to_seed(normalized, passphrase)
                 pair == from_seed(seed_bytes)
             IN  Outcome([s2 EXCEPT !.master_private_key = Some(pair[1]),
                                    !.master_chain_code = Some(pair[2]),
                                    !._depth = 0,
                                    !._index = 0,
                                    !._parent_fingerprint = <<0, 0, 0, 0>>],
                         <<>>, NoErr)

\* HDW.from_mnemonic
from_mnemonic(obj, mnemonic, passphrase) ==
    LET normalized == normalize_NFKD(mnemonic)
        s1 == [obj EXCEPT !._mnemonic = Some(normalized)]
        st == get_mnemonic_strength(normalized)
    IN  IF st.err # NoErr THEN Outcome(s1, <<>>, st.err)
        ELSE LET s2 == [s1 EXCEPT !.strength = Some(st.ret[1])]
                 seed_bytes == to_seed(normalized, passphrase)
                 pair == from_seed(seed_bytes)
             IN  Outcome([s2 EXCEPT !.master_private_key = Some(pair[1]),
                                    !.master_chain_code = Some(pair[2])],
                         <<>>, NoErr)

\* _deserialize_xprivate_key that only refuses keys that are too short
_deserialize_xprivate_key_at_least(xprivate_key, encoded) ==
    LET decoded_xprivate_key ==
            IF encoded THEN b2a_hex(xprivate_key) ELSE xprivate_key
    IN  IF Len(decoded_xprivate_key) < 156
        THEN [ret |-> <<>>, err |-> "Invalid xprivate key."]
        ELSE [ret |-> <<Slice(decoded_xprivate_key, 0, 4),
                        Slice(decoded_xprivate_key, 4, 5),
                        Slice(decoded_xprivate_key, 5, 9),
                        Slice(decoded_xprivate_key, 9, 13),
                        Slice(decoded_xprivate_key, 13, 45),
                        SliceFrom(decoded_xprivate_key, 46)>>,
              err |-> NoErr]

\* HDW._deserialize_xprivate_key (static): [ret, err]
_deserialize_xprivate_key(xprivate_key, encoded) ==
    LET decoded_xprivate_key ==
            IF encoded THEN b2a_hex(xprivate_key) ELSE xprivate_key
    IN  IF Len(decoded_xprivate_key) # 156
        THEN [ret |-> <<>>, err |-> "Invalid xprivate key."]
        ELSE [ret |-> <<Slice(decoded_xprivate_key, 0, 4),
                        Slice(decoded_xprivate_key, 4, 5),
                        Slice(decoded_xprivate_key, 5, 9),
                        Slice(decoded_xprivate_key, 9, 13),
                        Slice(decoded_xprivate_key, 13, 45),
                        SliceFrom(decoded_xprivate_key, 46)>>,
              err |-> NoErr]

\* the test of strict mode made on the hex digits of the version
NotRootVersion_digits(strict, version) ==
    strict /\ version # Slice(b2a_hex(XprvVersion), 0, 4)

\* The test of strict mode in HDW.from_xprivate_key
NotRootVersion(strict, version) == strict /\ version # XprvVersion

\* from_xprivate_key that tests strict mode after it has set the fields
from_xprivate_key_set_first(obj, xprivate_key, strict) ==
    LET d == _deserialize_xprivate_key(xprivate_key, TRUE)
        _parts == d.ret
    IN  IF d.err # NoErr THEN Outcome(obj, <<>>, d.err)
        ELSE IF Len(_parts[4]) # 4
        THEN Outcome(obj, <<>>, "unpack requires a buffer of 4 bytes")
        ELSE
        LET s1 == [obj EXCEPT !._depth = from_bytes_big(_parts[2]),
                              !._parent_fingerprint = _parts[3],
                              !._index = from_bytes_big(_parts[4])]
            s2 == [s1 EXCEPT !.master_private_key = Some(Slice(_parts[5], 0, 32)),
                             !.master_chain_code = Some(SliceFrom(_parts[5], 32))]
            string == s2.master_private_key[1]
        IN  IF NotRootVersion(strict, _parts[1])
            THEN Outcome(s1, <<>>, "Invalid root xprivate key.")
            ELSE IF ~SigningKeyOk(string)
            THEN Outcome(s2, <<>>, "MalformedPointError")
            ELSE LET s3 == [s2 EXCEPT !._key = Some(SigningKey(string))]
                 IN  Outcome([s3 EXCEPT !._verified_key =
                                  Some(get_verifying_key(s3._key[1]))],
                             <<>>, NoErr)

\* HDW.from_xprivate_key
from_xprivate_key(obj, xprivate_key, strict) ==
    LET d == _deserialize_xprivate_key(xprivate_key, TRUE)
        _parts == d.ret
    IN  IF d.err # NoErr THEN Outcome(obj, <<>>, d.err)
        ELSE IF NotRootVersion(strict, _parts[1])
        THEN Outcome(obj, <<>>, "Invalid root xprivate key.")
        ELSE IF Len(_parts[4]) # 4
        THEN Outcome(obj, <<>>, "unpack requires a buffer of 4 bytes")
        ELSE
        LET s1 == [obj EXCEPT !._depth = from_bytes_big(_parts[2]),
                              !._parent_fingerprint = _parts[3],
                              !._index = from_bytes_big(_parts[4])]
            s2 == [s1 EXCEPT !.master_private_key = Some(Slice(_parts[5], 0, 32)),
                             !.master_chain_code = Some(SliceFrom(_parts[5], 32))]
            string == s2.master_private_key[1]
        IN  IF ~SigningKeyOk(string)
            THEN Outcome(s2, <<>>, "MalformedPointError")
            ELSE LET s3 == [s2 EXCEPT !._key = Some(SigningKey(string))]
                 IN  Outcome([s3 EXCEPT !._verified_key =
                                  Some(get_verifying_key(s3._key[1]))],
                             <<>>, NoErr)

-----------------------------------------------------------------------------
(* The arguments the methods are called with *)

MaxWords == 25   \* mnemonics of 0..MaxWords words
MaxDepth == 1    \* extended keys of depth 0..MaxDepth
LenSlack == 1    \* extended keys up to LenSlack bytes short or long

\* n times the word "a", with sep between the words and after the last one
\* if trailing
RECURSIVE Mnemonic(_, _, _)
Mnemonic(n, sep, trailing) ==
    IF n = 0 THEN <<>>
    ELSE IF n = 1 THEN IF trailing THEN <<97, sep>> ELSE <<97>>
    ELSE <<97, sep>> \o Mnemonic(n - 1, sep, trailing)

\* separated by SPACE, by IDEOGRAPHIC SPACE, and by SPACE with one at the end
MnemonicStyles == {<<32, FALSE>>, <<12288, FALSE>>, <<32, TRUE>>}
AllMnemonics ==
    {Mnemonic(n, st[1], st[2]) : n \in 0..MaxWords, st \in MnemonicStyles}
\* 11 and 12 words, and 12 words separated by IDEOGRAPHIC SPACE
Mnemonics ==
    {Mnemonic(11, 32, FALSE), Mnemonic(12, 32, FALSE), Mnemonic(12, 12288, FALSE)}
Passphrases == {<<>>, <<112>>}

\* the hex strings "" and "000102ff"
SeedHex == <<48, 48, 48, 49, 48, 50, 102, 102>>
Seeds == {<<>>, SeedHex}
SeedBytes == {<<>>, unhexlify(SeedHex)}

\* The 78 bytes of a serialized extended private key: version, depth, parent
\* fingerprint, child index, 0x00, private key, chain code
Serialize(version, depth, fingerprint, index, k, c) ==
    version \o <<depth>> \o fingerprint \o index \o <<0>> \o k \o c

TprvVersion == <<4, 53, 131, 148>>
Versions == {XprvVersion, TprvVersion}
PrivateKeyBytes == [i \in 1..32 |-> i]
ChainCodeBytes == [i \in 1..32 |-> 100 + i]
\* the root has no parent and index 0, the node of depth d is child 260 + d
\* of a parent with a fingerprint
NodeKey(version, depth) ==
    IF depth = 0
    THEN Serialize(version, 0, <<0, 0, 0, 0>>, <<0, 0, 0, 0>>,
                   PrivateKeyBytes, ChainCodeBytes)
    ELSE Serialize(version, depth, <<17, 34, 51, 68>>, <<0, 0, 1, depth + 4>>,
                   PrivateKeyBytes, ChainCodeBytes)
ValidKeys == {NodeKey(v, d) : v \in Versions, d \in 0..MaxDepth}

\* x cut or padded to n elements
Resize(x, n) == [i \in 1..n |-> IF i <= Len(x) THEN x[i] ELSE 48]
Lengths(n) == {0} \cup ((n - LenSlack)..(n + LenSlack))
XprivateKeys ==
    ValidKeys \cup {Resize(NodeKey(XprvVersion, 0), n) : n \in Lengths(78)}
\* what _deserialize_xprivate_key is given when encoded is False
EncodedKeys ==
    {Resize(b2a_hex(NodeKey(XprvVersion, 0)), n) : n \in Lengths(156)}

-----------------------------------------------------------------------------
(* The instance and the calls made on it *)

Init ==
    \E s \in Seeds :
        /\ IsHex(s)
        /\ self = HDW(s)
        /\ state = IF s # <<>> THEN "RootDerived" ELSE "Uninitialized"
        /\ op = "__init__"
        /\ arg = <<s>>
        /\ flag = FALSE
        /\ ret = <<>>
        /\ err = NoErr

FromSeed(seed_bytes) ==
    /\ op' = "from_seed"
    /\ arg' = <<seed_bytes>>
    /\ flag' = FALSE
    /\ ret' = from_seed(seed_bytes)
    /\ err' = NoErr
    /\ UNCHANGED <<self, state>>

GetMnemonicStrength(mnemonic) ==
    LET r == get_mnemonic_strength(mnemonic)
    IN  /\ op' = "get_mnemonic_strength"
        /\ arg' = <<mnemonic>>
        /\ flag' = FALSE
        /\ ret' = IF r.err = NoErr THEN <<r.ret>> ELSE <<>>
        /\ err' = r.err
        /\ UNCHANGED <<self, state>>

ToSeed(mnemonic, passphrase) ==
    /\ op' = "to_seed"
    /\ arg' = <<mnemonic, passphrase>>
    /\ flag' = FALSE
    /\ ret' = <<to_seed(mnemonic, passphrase)>>
    /\ err' = NoErr
    /\ UNCHANGED <<self, state>>

DeserializeXprivateKey(xprivate_key, encoded) ==
    LET r == _deserialize_xprivate_key(xprivate_key, encoded)
    IN  /\ op' = "_deserialize_xprivate_key"
        /\ arg' = <<xprivate_key>>
        /\ flag' = encoded
        /\ ret' = r.ret
        /\ err' = r.err
        /\ UNCHANGED <<self, state>>

FromMnemonic(mnemonic, passphrase) ==
    LET r == from_mnemonic(self, mnemonic, passphrase)
    IN  /\ op' = "from_mnemonic"
        /\ arg' = <<mnemonic, passphrase>>
        /\ flag' = FALSE
        /\ self' = r.self
        /\ ret' = r.ret
        /\ err' = r.err
        /\ state' = IF r.err = NoErr THEN "RootDerived" ELSE state

FromXprivateKey(xprivate_key, strict) ==
    LET r == from_xprivate_key(self, xprivate_key, strict)
    IN  /\ op' = "from_xprivate_key"
        /\ arg' = <<xprivate_key>>
        /\ flag' = strict
        /\ self' = r.self
        /\ ret' = r.ret
        /\ err' = r.err
        /\ state' = IF r.err = NoErr THEN "Imported" ELSE state

Next ==
    \/ \E b \in SeedBytes : FromSeed(b)
    \/ \E m \in Mnemonics : GetMnemonicStrength(m)
    \/ \E m \in Mnemonics, p \in Passphrases : ToSeed(m, p)
    \/ \E x \in XprivateKeys : DeserializeXprivateKey(x, TRUE)
    \/ \E x \in EncodedKeys : DeserializeXprivateKey(x, FALSE)
    \/ \E m \in Mnemonics, p \in Passphrases : FromMnemonic(m, p)
    \/ \E x \in XprivateKeys, strict \in BOOLEAN : FromXprivateKey(x, strict)

Spec == Init /\ [][Next]_vars

\* The methods that leave the instance alone, on every argument
NextFn ==
    \/ \E b \in SeedBytes : FromSeed(b)
    \/ \E m \in AllMnemonics : GetMnemonicStrength(m)
    \/ \E m \in AllMnemonics, p \in Passphrases : ToSeed(m, p)
    \/ \E x \in XprivateKeys : DeserializeXprivateKey(x, TRUE)
    \/ \E x \in EncodedKeys : DeserializeXprivateKey(x, FALSE)

SpecFn == Init /\ [][NextFn]_vars

-----------------------------------------------------------------------------
(* Properties *)

\* The fields a serialized extended private key x of 78 bytes carries
KeyVersion(x) == SubSeq(x, 1, 4)
KeyDepth(x) == x[5]
KeyFingerprint(x) == SubSeq(x, 6, 9)
KeyIndex(x) == ((x[10] * 256 + x[11]) * 256 + x[12]) * 256 + x[13]
KeyPrivate(x) == SubSeq(x, 15, 46)
KeyChainCode(x) == SubSeq(x, 47, 78)

IsRoot == self._depth = 0 /\ self._index = 0
          /\ self._parent_fingerprint = <<0, 0, 0, 0>>
SameFields == /\ self'._depth = self._depth
              /\ self'._index = self._index
              /\ self'._parent_fingerprint = self._parent_fingerprint
SameKeys == /\ self'.master_private_key = self.master_private_key
            /\ self'.master_chain_code = self.master_chain_code
Imported == op = "from_xprivate_key" /\ err = NoErr

\* C1: a successful from_xprivate_key leaves in the instance the depth, the
\* parent fingerprint, the child index, the private key and the chain code
\* that the 78 bytes it was given carry.
C1_RoundTrip ==
    (Imported /\ Len(arg[1]) = 78 /\ arg[1][14] = 0) =>
        /\ self._depth = KeyDepth(arg[1])
        /\ self._parent_fingerprint = KeyFingerprint(arg[1])
        /\ self._index = KeyIndex(arg[1])
        /\ self.master_private_key = Some(KeyPrivate(arg[1]))
        /\ self.master_chain_code = Some(KeyChainCode(arg[1]))

\* C2: with strict set, from_xprivate_key on a key of 78 bytes succeeds
\* exactly when the version of the key is 0x0488ADE4, and otherwise raises
\* "Invalid root xprivate key.".
C2_StrictAcceptsXprv ==
    (op = "from_xprivate_key" /\ flag /\ Len(arg[1]) = 78) =>
        IF KeyVersion(arg[1]) = <<4, 136, 173, 228>>
        THEN err = NoErr /\ self.master_private_key # Unset
        ELSE err = "Invalid root xprivate key."

\* C3: from_xprivate_key on a key of 78 bytes whose depth is above 0 raises
\* "Invalid root xprivate key." with strict set, whatever the version, and
\* without strict it succeeds and sets the key material and the signing key.
C3_StrictRejectsNonRoot ==
    (op = "from_xprivate_key" /\ Len(arg[1]) = 78 /\ KeyDepth(arg[1]) > 0) =>
        IF flag
        THEN err = "Invalid root xprivate key."
        ELSE /\ err = NoErr
             /\ state = "Imported"
             /\ self.master_private_key # Unset
             /\ self._key = Some(SigningKey(self.master_private_key[1]))

C3_Witness ==
    /\ op = "from_xprivate_key" /\ flag
    /\ Len(arg[1]) = 78
    /\ KeyDepth(arg[1]) > 0
    /\ KeyVersion(arg[1]) = <<4, 136, 173, 228>>
    /\ err = "Invalid root xprivate key."

\* The number of hex digits the last call's key has once encoded:
\* from_xprivate_key and _deserialize_xprivate_key with encoded set encode
\* each byte as two digits, without encoded the argument is the digits.
EncodedLength ==
    IF op = "from_xprivate_key" \/ flag THEN 2 * Len(arg[1]) ELSE Len(arg[1])

\* C4: _deserialize_xprivate_key, and from_xprivate_key through it, raises
\* "Invalid xprivate key." and returns no field whenever the encoded key is
\* not 156 digits long (0, 155 and 157 digits too), and never raises it for
\* 156 digits.
C4_LengthChecked ==
    (op = "_deserialize_xprivate_key" \/ op = "from_xprivate_key") =>
        IF EncodedLength # 156
        THEN err = "Invalid xprivate key." /\ ret = <<>>
        ELSE err # "Invalid xprivate key."

C4_Witness ==
    /\ op = "_deserialize_xprivate_key" /\ ~flag
    /\ Len(arg[1]) = 157
    /\ err = "Invalid xprivate key."

\* C5: a from_xprivate_key that raises leaves _depth, _index,
\* _parent_fingerprint, master_private_key and master_chain_code as they were.
C5_FailureKeepsState ==
    [][(op' = "from_xprivate_key" /\ err' # NoErr) => SameFields /\ SameKeys]_vars

C5_Witness ==
    /\ op = "from_xprivate_key" /\ err = "Invalid root xprivate key."
    /\ state = "Imported"
    /\ self._depth # 0

\* C6: while the key material set last comes from a seed or a mnemonic, the
\* instance is a root: _depth = 0, _index = 0, _parent_fingerprint = 0000.
C6_DerivedIsRoot == state = "RootDerived" => IsRoot

\* C7: _depth, _index and _parent_fingerprint start at 0, 0 and 0000, and
\* only a from_xprivate_key that succeeds changes them.
C7_OnlyImportSetsFields ==
    IsRoot /\ [][~(op' = "from_xprivate_key" /\ err' = NoErr) => SameFields]_vars

C7_Witness ==
    /\ op = "from_mnemonic" /\ err = NoErr
    /\ self._depth # 0

\* C8: the master private key and the master chain code, once set, are 32
\* bytes long each.
C8_KeyMaterialLengths ==
    /\ self.master_private_key # Unset => Len(self.master_private_key[1]) = 32
    /\ self.master_chain_code # Unset => Len(self.master_chain_code[1]) = 32

\* The words of a mnemonic built as Mnemonic(n, sep, trailing): n words, one
\* more, empty, after a separator at the end, and one, empty, of "".
WordsOf(n, trailing) == IF n = 0 THEN 1 ELSE IF trailing THEN n + 1 ELSE n
StrengthOf(words) ==
    CASE words = 12 -> <<<<128>>>>
      [] words = 15 -> <<<<160>>>>
      [] words = 18 -> <<<<192>>>>
      [] words = 21 -> <<<<224>>>>
      [] words = 24 -> <<<<256>>>>
      [] OTHER -> <<>>

\* C9: get_mnemonic_strength returns 128, 160, 192, 224, 256 for 12, 15, 18,
\* 21, 24 words, the words being what single spaces separate once the
\* mnemonic is NFKD-normalized, raises "Unsupported number of words in
\* mnemonic." for any other number of words, and leaves the instance alone.
C9_Strength ==
    /\ [](op = "get_mnemonic_strength" =>
            \A n \in 0..MaxWords, st \in MnemonicStyles :
                arg[1] = Mnemonic(n, st[1], st[2]) =>
                    /\ ret = StrengthOf(WordsOf(n, st[2]))
                    /\ err = IF ret = <<>>
                             THEN "Unsupported number of words in mnemonic."
                             ELSE NoErr)
    /\ [][op' = "get_mnemonic_strength" => self' = self]_vars

C9_Witness ==
    /\ op = "get_mnemonic_strength"
    /\ arg[1] = Mnemonic(24, 12288, FALSE)
    /\ ret = <<<<256>>>>

\* b"Bitcoin seed"
AsciiBitcoinSeed == <<66, 105, 116, 99, 111, 105, 110, 32, 115, 101, 101, 100>>
IsMasterOf(private_key, chain_code, seed_bytes) ==
    /\ Len(private_key) = 32
    /\ Len(chain_code) = 32
    /\ private_key \o chain_code = hmac_sha512(AsciiBitcoinSeed, seed_bytes)

\* C10: from_seed returns 32 bytes of private key and 32 bytes of chain code
\* that together are the HMAC-SHA512 of the seed under the key "Bitcoin seed",
\* called alone, by the constructor on the seed it is given, and by
\* from_mnemonic on the seed of the mnemonic.
C10_MasterKey ==
    /\ op = "from_seed" => IsMasterOf(ret[1], ret[2], arg[1])
    /\ (op = "__init__" /\ arg[1] # <<>>) =>
           /\ IsMasterOf(self.master_private_key[1], self.master_chain_code[1],
                         unhexlify(arg[1]))
           /\ self.seed = Some(unhexlify(arg[1]))
    /\ (op = "from_mnemonic" /\ err = NoErr) =>
           IsMasterOf(self.master_private_key[1], self.master_chain_code[1],
                      to_seed(normalize_NFKD(arg[1]), arg[2]))
    /\ (op = "from_seed" /\ self.seed = Some(arg[1]) /\ self.strength = Unset
            /\ state = "RootDerived") =>
           ret = <<self.master_private_key[1], self.master_chain_code[1]>>

C10_Witness ==
    /\ op = "from_seed"
    /\ self.seed = Some(arg[1])
    /\ state = "RootDerived"
    /\ self.strength = Unset
    /\ ret = <<self.master_private_key[1], self.master_chain_code[1]>>

====
